---------------------------- MODULE Spec2Model ----------------------------
(***************************************************************************)
(* A model of pagoda/skeleton.py: the pid() controller closure, the        *)
(* flat_array() helper and the Skeleton class.                             *)
(*                                                                         *)
(* Numbers that go through the controller arithmetic are exact rationals   *)
(* <<numerator, denominator>> (denominator > 0, lowest terms); the         *)
(* rounding of Python floats is not modelled.  Bodies and controllers are  *)
(* objects with an identity (an index into a heap), because the code       *)
(* reaches bodies both through stored references (self.bodies) and through *)
(* the world's lookup by name, and because controllers are closures with   *)
(* private mutable state.                                                  *)
(***************************************************************************)
EXTENDS Integers, Sequences, FiniteSets, TLC

VARIABLES
    dt,           \* world.dt, a positive rational
    worldBodies,  \* the world's lookup: body name -> body object (0: absent)
    bodyObjs,     \* heap of body objects created in the world so far
    roots,        \* Skeleton.roots  : sequence of body references
    bodies,       \* Skeleton.bodies : sequence of body references
    joints,       \* Skeleton.joints : sequence of joint objects
    ctrls,        \* heap of live controller closures (state dict + gains)
    nctrl,        \* number of controller closures created so far
    errs,         \* history: the errors each live controller was stepped with
    saved,        \* the caller's variable holding a get_body_states() result
    last,         \* the last call made on the skeleton and how it ended
    pre,          \* history: joints and controllers as they were before it
    ncalls,       \* number of set_target_angles and add_torques calls
                  \* made so far (bounded)
    nsetup,       \* number of load_skel and set_pid_params calls (bounded)
    snap,         \* history: the body views when saved was taken, while only
                  \* the world has changed body state since
    pidCtl,       \* a stand-alone controller made by pid(...)
    pidCalls,     \* history: the (error, dt) pairs it was called with
    pidOuts       \* history: what each of those calls returned

vars == <<dt, worldBodies, bodyObjs, roots, bodies, joints, ctrls, nctrl, errs,
          saved, last, pre, ncalls, nsetup, snap, pidCtl, pidCalls, pidOuts>>

skelVars == <<dt, worldBodies, bodyObjs, roots, bodies, joints, ctrls, nctrl,
              errs, saved, last, pre, ncalls, nsetup, snap>>

pidVars == <<pidCtl, pidCalls, pidOuts>>

-----------------------------------------------------------------------------
(* Exact rational arithmetic.                                              *)

Abs(x) == IF x < 0 THEN -x ELSE x

RECURSIVE GCD(_, _)
GCD(a, b) == IF b = 0 THEN a ELSE GCD(b, a % b)

Norm(n, d) ==
    LET s == IF d < 0 THEN -1 ELSE 1
        g == GCD(Abs(n), Abs(d))
    IN  <<(s * n) \div g, (s * d) \div g>>

R(n) == <<n, 1>>
Zero == R(0)
One == R(1)
RAdd(a, b) == Norm(a[1] * b[2] + b[1] * a[2], a[2] * b[2])
RSub(a, b) == Norm(a[1] * b[2] - b[1] * a[2], a[2] * b[2])
RMul(a, b) == Norm(a[1] * b[1], a[2] * b[2])
\* Only used with b # Zero: the callers raise ZeroDivisionError otherwise.
RDiv(a, b) == Norm(a[1] * b[2], a[2] * b[1])
RSign(a) == IF a[1] > 0 THEN 1 ELSE IF a[1] < 0 THEN -1 ELSE 0
RAbs(a) == <<Abs(a[1]), a[2]>>
RLess(a, b) == a[1] * b[2] < b[1] * a[2]
RLeq(a, b) == a[1] * b[2] <= b[1] * a[2]

-----------------------------------------------------------------------------
(* pid(kp, ki, kd, smooth): the closure's captured gains and state dict.   *)

pid(kp, ki, kd, smooth) ==
    [kp |-> kp, ki |-> ki, kd |-> kd, smooth |-> smooth,
     p |-> Zero, i |-> Zero, d |-> Zero]

\* The default smooth=0.1 of pid().
DefaultSmooth == <<1, 10>>

\* state['d'] = smooth * state['d'] + (1 - smooth) * (error - state['p']) / dt
control_d_swapped(c, error, tstep) ==
    RAdd(RMul(c.smooth, c.d),
         RDiv(RMul(RSub(One, c.smooth), RSub(error, error)), tstep))

control_d(c, error, tstep) ==
    RAdd(RMul(c.smooth, c.d),
         RDiv(RMul(RSub(One, c.smooth), RSub(error, c.p)), tstep))

\* The closure's state after control(error, dt), for dt # 0.
control(c, error, tstep) ==
    [c EXCEPT !.d = control_d(c, error, tstep),
              !.i = RAdd(c.i, RMul(error, tstep)),
              !.p = error]

\* return kp * state['p'] + ki * state['i'] + kd * state['d']
control_value(c) ==
    RAdd(RAdd(RMul(c.kp, c.p), RMul(c.ki, c.i)), RMul(c.kd, c.d))

-----------------------------------------------------------------------------
(* Python lists as sequences.                                              *)

Min(a, b) == IF a < b THEN a ELSE b

\* s[a:b] for 0 <= a <= b (a slice past the end is cut, not an error).
slice(s, a, b) ==
    LET lo == Min(a, Len(s))
        hi == Min(b, Len(s))
    IN  [x \in 1..(hi - lo) |-> s[lo + x]]

\* [v] * n
repeat(v, n) == [x \in 1..n |-> v]

\* list(range(a, b))
range(a, b) == [x \in 1..(b - a) |-> a + x - 1]

\* flat_array(iterables): arr.extend(x) for every x, in order.
RECURSIVE flat_array(_)
flat_array(iterables) ==
    IF iterables = <<>> THEN <<>>
    ELSE Head(iterables) \o flat_array(Tail(iterables))

SeqSet(s) == {s[x] : x \in 1..Len(s)}

RECURSIVE SumSeq(_)
SumSeq(s) == IF s = <<>> THEN 0 ELSE Head(s) + SumSeq(Tail(s))

-----------------------------------------------------------------------------
(* The Skeleton's read-only queries.                                       *)

\* sum(j.ADOF for j in self.joints)
num_dofs_of(js) == SumSeq([k \in 1..Len(js) |-> js[k].ADOF])
num_dofs == num_dofs_of(joints)

joint_angles == flat_array([k \in 1..Len(joints) |-> joints[k].angles])
joint_velocities == flat_array([k \in 1..Len(joints) |-> joints[k].velocities])
joint_torques ==
    flat_array([k \in 1..Len(joints) |->
                  slice(joints[k].amotor_feedback, 0, joints[k].ADOF)])

body_positions ==
    flat_array([k \in 1..Len(bodies) |-> bodyObjs[bodies[k]].position])
body_rotations ==
    flat_array([k \in 1..Len(bodies) |-> bodyObjs[bodies[k]].quaternion])
body_linear_velocities ==
    flat_array([k \in 1..Len(bodies) |-> bodyObjs[bodies[k]].linear_velocity])
body_angular_velocities ==
    flat_array([k \in 1..Len(bodies) |-> bodyObjs[bodies[k]].angular_velocity])

\* The scan of indices_for_joint from joint k on, with j accumulated so far.
RECURSIVE scan_joints(_, _, _, _)
scan_joints(js, k, j, name) ==
    IF k > Len(js) THEN <<>>
    ELSE IF js[k].name = name THEN range(j, j + js[k].ADOF)
    ELSE scan_joints(js, k + 1, j + js[k].ADOF, name)

\* The same scan with j += 1 in place of j += joint.ADOF.
RECURSIVE scan_joints_unit(_, _, _, _)
scan_joints_unit(js, k, j, name) ==
    IF k > Len(js) THEN <<>>
    ELSE IF js[k].name = name THEN range(j, j + js[k].ADOF)
    ELSE scan_joints_unit(js, k + 1, j + 1, name)

indices_for_joint_unit(name) == scan_joints_unit(joints, 1, 0, name)

indices_for_joint(name) == scan_joints(joints, 1, 0, name)

RECURSIVE scan_bodies(_, _, _)
scan_bodies(k, name, step) ==
    IF k > Len(bodies) THEN <<>>
    ELSE IF bodyObjs[bodies[k]].name = name
         THEN range((k - 1) * step, k * step)
    ELSE scan_bodies(k + 1, name, step)

indices_for_body(name, step) == scan_bodies(1, name, step)

\* ((np.array(joint.anchor) - joint.anchor2) ** 2).sum()
sq_dist(a, b) ==
    (a[1] - b[1]) * (a[1] - b[1]) + (a[2] - b[2]) * (a[2] - b[2])
    + (a[3] - b[3]) * (a[3] - b[3])

\* np.sqrt(np.mean(deltas)): the mean of an empty list is nan, and so is its
\* square root; otherwise the result is the root of a rational, kept symbolic.
joint_rms ==
    LET deltas == [k \in 1..Len(joints) |->
                     sq_dist(joints[k].anchor, joints[k].anchor2)]
    IN  IF deltas = <<>> THEN [nan |-> TRUE, sqrt_of |-> Zero]
        ELSE [nan |-> FALSE, sqrt_of |-> Norm(SumSeq(deltas), Len(deltas))]

\* Whether a joint_rms() result is the number 0.
IsZeroRms(r) == ~r.nan /\ r.sqrt_of = Zero

get_body_states ==
    [k \in 1..Len(bodies) |->
       LET b == bodyObjs[bodies[k]]
       IN  <<b.name, b.position, b.quaternion, b.linear_velocity,
             b.angular_velocity>>]

-----------------------------------------------------------------------------
(* The physics world and the parser, as the Skeleton uses them.            *)

BodyNames == {"torso", "leg"}
JointNames == {"hip", "knee"}

\* A body as the world creates it: at rest at the origin.
NewBody(name) ==
    [name |-> name, position |-> <<0, 0, 0>>, quaternion |-> <<1, 0, 0, 0>>,
     linear_velocity |-> <<0, 0, 0>>, angular_velocity |-> <<0, 0, 0>>]

\* A joint as the world creates it; target_angles and controllers are only
\* set by set_pid_params.
NewJoint(jd) ==
    [name |-> jd.name, ADOF |-> jd.ADOF,
     angles |-> repeat(Zero, jd.ADOF), velocities |-> repeat(Zero, jd.ADOF),
     max_forces |-> 0, feedback |-> FALSE, amotor_feedback |-> <<0, 0, 0>>,
     anchor |-> <<0, 0, 0>>, anchor2 |-> <<0, 0, 0>>,
     target_angles |-> <<>>, controllers |-> <<>>, added |-> <<>>]

\* world.get_body(name): the body registered under the name, 0 if none.
get_body(name) == worldBodies[name]

\* What p.parse(source) leaves behind for a description desc (the bodies and
\* joints it names, in order, its root identifiers, and whether it is well
\* formed): every body is created in the world and registered under its
\* name, the latest body of a name being the one the world finds.
parsed_bodies(desc) == [k \in 1..Len(desc.bodies) |-> Len(bodyObjs) + k]
parsed_joints(desc) == [k \in 1..Len(desc.joints) |-> NewJoint(desc.joints[k])]
parsed_heap(desc) ==
    bodyObjs \o [k \in 1..Len(desc.bodies) |-> NewBody(desc.bodies[k])]
parsed_lookup(desc) ==
    [n \in BodyNames |->
       LET ks == {k \in 1..Len(desc.bodies) : desc.bodies[k] = n}
       IN  IF ks = {} THEN worldBodies[n]
           ELSE Len(bodyObjs) + (CHOOSE k \in ks : \A m \in ks : m <= k)]

-----------------------------------------------------------------------------
(* set_pid_params and load_skel.                                           *)

NoPre == [joints |-> <<>>, ctrls |-> <<>>, errs |-> <<>>]
NoSnap == [taken |-> FALSE, moved |-> FALSE]

\* Flat offset of joint k: the ADOFs of the joints before it.
dof_offset(js, k) == num_dofs_of(SubSeq(js, 1, k - 1))

\* [pid(*args, **kwargs) for i in range(joint.ADOF)] with a controller shared.
new_controllers_shared(base, adof) == [d \in 1..adof |-> base + 1]

\* [pid(*args, **kwargs) for i in range(joint.ADOF)]: ADOF new closures.
new_controllers(base, adof) == [d \in 1..adof |-> base + d]

\* The joints after set_pid_params, the closures numbered from base + 1.
pid_joints(js, base) ==
    [k \in 1..Len(js) |->
       [js[k] EXCEPT
          !.target_angles = repeat("None", js[k].ADOF),
          !.controllers = new_controllers(base + dof_offset(js, k), js[k].ADOF)]]

\* The closures set_pid_params creates; the ones they replace are dropped.
pid_heap(js, base, kp, ki, kd, smooth) ==
    [id \in (base + 1)..(base + num_dofs_of(js)) |-> pid(kp, ki, kd, smooth)]

TenThousand == 10000

\* kp=(1 - 1e4) / self.world.dt
load_kp == RDiv(RSub(One, R(TenThousand)), dt)

\* [world.get_body(r) for r in p.roots]: the name world is bound neither in
\* load_skel nor in the module, so evaluating the element expression raises
\* NameError; with no root identifier it is never evaluated.
resolve_roots(rs) ==
    IF rs = <<>> THEN [raised |-> FALSE, value |-> <<>>]
    ELSE [raised |-> TRUE, value |-> <<>>]

MaxSetup == 2
MaxCalls == 2

Event(op, result, arg) == [op |-> op, result |-> result, arg |-> arg]

\* load_skel with bodies and joints assigned before the roots are resolved.
load_skel_early(desc) ==
    /\ nsetup < MaxSetup
    /\ nsetup' = nsetup + 1
    /\ bodyObjs' = parsed_heap(desc)
    /\ worldBodies' = parsed_lookup(desc)
    /\ IF ~desc.ok
       THEN /\ last' = Event("load_skel", "ParseError", desc)
            /\ UNCHANGED <<roots, bodies, joints, ctrls, nctrl, errs>>
       ELSE /\ roots' = resolve_roots(desc.roots).value
            /\ bodies' = parsed_bodies(desc)
            /\ joints' = pid_joints(parsed_joints(desc), nctrl)
            /\ ctrls' = pid_heap(parsed_joints(desc), nctrl,
                                 load_kp, Zero, Zero, DefaultSmooth)
            /\ errs' = [id \in DOMAIN ctrls' |-> <<>>]
            /\ nctrl' = nctrl + num_dofs_of(desc.joints)
            /\ last' = Event("load_skel",
                             IF resolve_roots(desc.roots).raised
                             THEN "NameError" ELSE "ok", desc)
    /\ pre' = NoPre
    /\ snap' = NoSnap
    /\ UNCHANGED <<dt, saved, ncalls, pidVars>>

load_skel(desc) ==
    /\ nsetup < MaxSetup
    /\ nsetup' = nsetup + 1
    /\ bodyObjs' = parsed_heap(desc)
    /\ worldBodies' = parsed_lookup(desc)
    /\ IF ~desc.ok
       THEN /\ last' = Event("load_skel", "ParseError", desc)
            /\ UNCHANGED <<roots, bodies, joints, ctrls, nctrl, errs>>
       ELSE IF resolve_roots(desc.roots).raised
       THEN /\ last' = Event("load_skel", "NameError", desc)
            /\ UNCHANGED <<roots, bodies, joints, ctrls, nctrl, errs>>
       ELSE /\ roots' = resolve_roots(desc.roots).value
            /\ bodies' = parsed_bodies(desc)
            /\ joints' = pid_joints(parsed_joints(desc), nctrl)
            /\ ctrls' = pid_heap(parsed_joints(desc), nctrl,
                                 load_kp, Zero, Zero, DefaultSmooth)
            /\ errs' = [id \in DOMAIN ctrls' |-> <<>>]
            /\ nctrl' = nctrl + num_dofs_of(desc.joints)
            /\ last' = Event("load_skel", "ok", desc)
    /\ pre' = NoPre
    /\ snap' = NoSnap
    /\ UNCHANGED <<dt, saved, ncalls, pidVars>>

\* raise NotImplementedError
load_asf ==
    /\ last' = Event("load_asf", "NotImplementedError", <<>>)
    /\ pre' = NoPre
    /\ UNCHANGED <<dt, worldBodies, bodyObjs, roots, bodies, joints, ctrls,
                   nctrl, errs, saved, ncalls, snap, nsetup, pidVars>>

set_pid_params(kp, ki, kd, smooth) ==
    /\ nsetup < MaxSetup
    /\ nsetup' = nsetup + 1
    /\ joints' = pid_joints(joints, nctrl)
    /\ ctrls' = pid_heap(joints, nctrl, kp, ki, kd, smooth)
    /\ errs' = [id \in DOMAIN ctrls' |-> <<>>]
    /\ nctrl' = nctrl + num_dofs
    /\ last' = Event("set_pid_params", "ok", <<kp, ki, kd, smooth>>)
    /\ pre' = NoPre
    /\ UNCHANGED <<dt, worldBodies, bodyObjs, roots, bodies, saved, ncalls,
                   snap, pidVars>>

-----------------------------------------------------------------------------
(* set_target_angles and add_torques.                                      *)

\* One joint's list comprehension over zip(joint.angles, angles[j:j+ADOF],
\* joint.controllers), from position x on: each closure is called in turn.
\* acc holds the controller heap, the error history and the velocities.
RECURSIVE run_zip(_, _, _, _, _)
run_zip(acc, cur, tgt, cs, x) ==
    IF x > Min(Len(cur), Min(Len(tgt), Len(cs))) THEN acc
    ELSE LET id == cs[x]
             e == RSub(tgt[x], cur[x])
             c == control(acc.heap[id], e, dt)
         IN  run_zip([heap |-> [acc.heap EXCEPT ![id] = c],
                      errs |-> [acc.errs EXCEPT ![id] = Append(@, e)],
                      out |-> Append(acc.out, control_value(c))],
                     cur, tgt, cs, x + 1)

\* The loop over self.joints with j += 1 in place of j += joint.ADOF.
RECURSIVE run_joints_unit(_, _, _, _)
run_joints_unit(acc, k, j, angles) ==
    IF k > Len(acc.joints) THEN acc
    ELSE LET jt == acc.joints[k]
             r == run_zip([heap |-> acc.heap, errs |-> acc.errs, out |-> <<>>],
                          jt.angles, slice(angles, j, j + jt.ADOF),
                          jt.controllers, 1)
         IN  run_joints_unit([heap |-> r.heap, errs |-> r.errs,
                              joints |-> [acc.joints EXCEPT ![k].velocities = r.out]],
                             k + 1, j + 1, angles)

\* The loop over self.joints from joint k on, j being the offset so far.
RECURSIVE run_joints(_, _, _, _)
run_joints(acc, k, j, angles) ==
    IF k > Len(acc.joints) THEN acc
    ELSE LET jt == acc.joints[k]
             r == run_zip([heap |-> acc.heap, errs |-> acc.errs, out |-> <<>>],
                          jt.angles, slice(angles, j, j + jt.ADOF),
                          jt.controllers, 1)
         IN  run_joints([heap |-> r.heap, errs |-> r.errs,
                         joints |-> [acc.joints EXCEPT ![k].velocities = r.out]],
                        k + 1, j + jt.ADOF, angles)

set_target_angles(angles) ==
    /\ ncalls < MaxCalls
    /\ LET r == run_joints([heap |-> ctrls, errs |-> errs, joints |-> joints],
                           1, 0, angles)
       IN  /\ joints' = r.joints
           /\ ctrls' = r.heap
           /\ errs' = r.errs
    /\ pre' = [joints |-> joints, ctrls |-> ctrls, errs |-> errs]
    /\ last' = Event("set_target_angles", "ok", angles)
    /\ ncalls' = ncalls + 1
    /\ UNCHANGED <<dt, worldBodies, bodyObjs, roots, bodies, nctrl, saved,
                   snap, nsetup, pidVars>>

\* The loop of add_torques with j += 1 in place of j += joint.ADOF.
RECURSIVE add_joints_unit(_, _, _, _)
add_joints_unit(js, k, j, torques) ==
    IF k > Len(js) THEN js
    ELSE add_joints_unit(
           [js EXCEPT ![k].added =
              Append(@, slice(torques, j, j + js[k].ADOF)
                        \o repeat(0, 3 - js[k].ADOF))],
           k + 1, j + 1, torques)

\* The loop of add_torques from joint k on, j being the offset so far; a
\* joint records every torque added to it.
RECURSIVE add_joints(_, _, _, _)
add_joints(js, k, j, torques) ==
    IF k > Len(js) THEN js
    ELSE add_joints(
           [js EXCEPT ![k].added =
              Append(@, slice(torques, j, j + js[k].ADOF)
                        \o repeat(0, 3 - js[k].ADOF))],
           k + 1, j + js[k].ADOF, torques)

add_torques(torques) ==
    /\ ncalls < MaxCalls
    /\ joints' = add_joints(joints, 1, 0, torques)
    /\ pre' = [joints |-> joints, ctrls |-> ctrls, errs |-> errs]
    /\ last' = Event("add_torques", "ok", torques)
    /\ ncalls' = ncalls + 1
    /\ UNCHANGED <<dt, worldBodies, bodyObjs, roots, bodies, ctrls, nctrl,
                   errs, saved, snap, nsetup, pidVars>>

set_joint_velocities(target) ==
    /\ joints' = [k \in 1..Len(joints) |->
                    [joints[k] EXCEPT !.velocities = repeat(target, joints[k].ADOF)]]
    /\ last' = Event("set_joint_velocities", "ok", target)
    /\ pre' = NoPre
    /\ UNCHANGED <<dt, worldBodies, bodyObjs, roots, bodies, ctrls, nctrl,
                   errs, saved, ncalls, snap, nsetup, pidVars>>

enable_motors(max_force) ==
    /\ joints' = [k \in 1..Len(joints) |->
                    [joints[k] EXCEPT !.max_forces = max_force,
                                      !.feedback = TRUE]]
    /\ last' = Event("enable_motors", "ok", max_force)
    /\ pre' = NoPre
    /\ UNCHANGED <<dt, worldBodies, bodyObjs, roots, bodies, ctrls, nctrl,
                   errs, saved, ncalls, snap, nsetup, pidVars>>

disable_motors ==
    /\ joints' = [k \in 1..Len(joints) |->
                    [joints[k] EXCEPT !.max_forces = 0, !.feedback = FALSE]]
    /\ last' = Event("disable_motors", "ok", 0)
    /\ pre' = NoPre
    /\ UNCHANGED <<dt, worldBodies, bodyObjs, roots, bodies, ctrls, nctrl,
                   errs, saved, ncalls, snap, nsetup, pidVars>>

-----------------------------------------------------------------------------
(* get_body_states and set_body_states.                                    *)

GetBodyStates ==
    /\ saved' = get_body_states
    /\ snap' = [taken |-> TRUE, moved |-> FALSE,
                positions |-> body_positions,
                rotations |-> body_rotations,
                linear |-> body_linear_velocities,
                angular |-> body_angular_velocities]
    /\ last' = Event("get_body_states", "ok", <<>>)
    /\ pre' = NoPre
    /\ UNCHANGED <<dt, worldBodies, bodyObjs, roots, bodies, joints, ctrls,
                   nctrl, errs, ncalls, nsetup, pidVars>>

\* The four assignments of set_body_states that drop the angular velocity.
put_state_no_angular(objs, b, st) ==
    [objs EXCEPT ![b].position = st[2], ![b].quaternion = st[3],
                 ![b].linear_velocity = st[4]]

\* The four assignments of set_body_states to the body found.
put_state(objs, b, st) ==
    [objs EXCEPT ![b].position = st[2], ![b].quaternion = st[3],
                 ![b].linear_velocity = st[4], ![b].angular_velocity = st[5]]

\* The loop of set_body_states from state x on; a name the world does not
\* know gives None, and the first assignment to it raises AttributeError.
RECURSIVE put_states(_, _, _)
put_states(objs, states, x) ==
    IF x > Len(states) THEN [objs |-> objs, result |-> "ok"]
    ELSE LET b == get_body(states[x][1])
         IN  IF b = 0 THEN [objs |-> objs, result |-> "AttributeError"]
             ELSE put_states(put_state(objs, b, states[x]), states, x + 1)

set_body_states(states) ==
    /\ LET r == put_states(bodyObjs, states, 1)
       IN  /\ bodyObjs' = r.objs
           /\ last' = Event("set_body_states", r.result, states)
    /\ pre' = NoPre
    /\ UNCHANGED <<dt, worldBodies, roots, bodies, joints, ctrls, nctrl, errs,
                   saved, ncalls, snap, nsetup, pidVars>>

-----------------------------------------------------------------------------
(* The simulation, which changes bodies and joints between the calls.      *)

WorldMoveBody(b, st) ==
    /\ b \in 1..Len(bodyObjs)
    /\ bodyObjs' = [bodyObjs EXCEPT
                      ![b].position = st.position,
                      ![b].quaternion = st.quaternion,
                      ![b].linear_velocity = st.linear_velocity,
                      ![b].angular_velocity = st.angular_velocity]
    /\ snap' = IF snap.taken /\ bodyObjs' # bodyObjs
               THEN [snap EXCEPT !.moved = TRUE] ELSE snap
    /\ last' = Event("world", "ok", <<>>)
    /\ pre' = NoPre
    /\ UNCHANGED <<dt, worldBodies, roots, bodies, joints, ctrls, nctrl, errs,
                   saved, ncalls, nsetup, pidVars>>

WorldMoveJoint(k, angles) ==
    /\ k \in 1..Len(joints)
    /\ Len(angles) = joints[k].ADOF
    /\ joints' = [joints EXCEPT ![k].angles = angles]
    /\ last' = Event("world", "ok", <<>>)
    /\ pre' = NoPre
    /\ UNCHANGED <<dt, worldBodies, bodyObjs, roots, bodies, ctrls, nctrl,
                   errs, saved, ncalls, snap, nsetup, pidVars>>

WorldMoveAnchor(k, a) ==
    /\ k \in 1..Len(joints)
    /\ joints' = [joints EXCEPT ![k].anchor = a]
    /\ last' = Event("world", "ok", <<>>)
    /\ pre' = NoPre
    /\ UNCHANGED <<dt, worldBodies, bodyObjs, roots, bodies, ctrls, nctrl,
                   errs, saved, ncalls, snap, nsetup, pidVars>>

-----------------------------------------------------------------------------
(* A controller used on its own.                                           *)

MaxPidCalls == 3

\* control(error, dt): a zero dt raises ZeroDivisionError in the first
\* statement, before anything is assigned.
PidControl(error, tstep) ==
    /\ Len(pidCalls) < MaxPidCalls
    /\ pidCalls' = Append(pidCalls, <<error, tstep>>)
    /\ IF tstep = Zero
       THEN /\ pidCtl' = pidCtl
            /\ pidOuts' = Append(pidOuts, "ZeroDivisionError")
       ELSE /\ pidCtl' = control(pidCtl, error, tstep)
            /\ pidOuts' = Append(pidOuts, control_value(pidCtl'))
    /\ UNCHANGED skelVars

-----------------------------------------------------------------------------
(* Specifications.                                                         *)

Half == <<1, 2>>

\* A Skeleton right after Skeleton(world), in a world with time step tstep.
InitSkeleton(tstep) ==
    /\ dt = tstep
    /\ worldBodies = [n \in BodyNames |-> 0]
    /\ bodyObjs = <<>>
    /\ roots = <<>>
    /\ bodies = <<>>
    /\ joints = <<>>
    /\ ctrls = <<>>
    /\ nctrl = 0
    /\ errs = <<>>
    /\ saved = <<>>
    /\ last = Event("__init__", "ok", <<>>)
    /\ pre = NoPre
    /\ ncalls = 0
    /\ nsetup = 0
    /\ snap = NoSnap

InitPid(kp, ki, kd, smooth) ==
    /\ pidCtl = pid(kp, ki, kd, smooth)
    /\ pidCalls = <<>>
    /\ pidOuts = <<>>

\* The controller alone: gains and smoothing chosen at creation, then calls.
PidGains ==
    { <<One, Zero, Zero, Zero>>, <<R(2), Zero, Zero, DefaultSmooth>>,
      <<Zero, One, Zero, DefaultSmooth>>, <<Zero, Zero, One, Half>>,
      <<One, One, One, DefaultSmooth>>, <<R(2), One, R(2), One>> }
PidErrors == {R(-1), R(2), R(3)}
PidSteps == {Zero, One, Half}

InitPidOnly ==
    /\ InitSkeleton(Half)
    /\ \E g \in PidGains : InitPid(g[1], g[2], g[3], g[4])

NextPid == \E e \in PidErrors, tstep \in PidSteps : PidControl(e, tstep)

SpecPid == InitPidOnly /\ [][NextPid]_vars

-----------------------------------------------------------------------------
(* The Skeleton with every joint layout: load_skel and add_torques.        *)

MaxJoints == 2

\* The joint names a description gives, in order of appearance.
IdxJointNames == <<"hip", "knee", "ankle", "wrist">>

\* Sequences of at most n ADOFs, each 1, 2 or 3.
RECURSIVE AdofLists(_)
AdofLists(n) ==
    IF n = 0 THEN {<<>>}
    ELSE LET shorter == AdofLists(n - 1)
         IN  shorter \cup
             {Append(as, a) : as \in {x \in shorter : Len(x) = n - 1}, a \in 1..3}

UniqueNames(js) ==
    \A k, m \in 1..Len(js) : js[k].name = js[m].name => k = m

Description(ok, rs, bs, js) ==
    [ok |-> ok, roots |-> rs, bodies |-> bs, joints |-> js]

\* Descriptions of joints only: every sequence of ADOFs under distinct
\* names, and three layouts in which two joints share a name.
IdxDescriptions ==
    {Description(TRUE, <<>>, <<>>,
                 [k \in 1..Len(as) |-> [name |-> IdxJointNames[k], ADOF |-> as[k]]]) :
       as \in AdofLists(MaxJoints)}
    \cup
    {Description(TRUE, <<>>, <<>>,
                 <<[name |-> "hip", ADOF |-> a], [name |-> "hip", ADOF |-> 4 - a]>>) :
       a \in 1..3}

\* A torque vector of n distinct entries.
TorqueVector(n) == [x \in 1..n |-> 10 + x]

\* The vectors a caller passes: as long as the skeleton has DOFs, one
\* longer, one shorter.
TorqueInputs ==
    {TorqueVector(n) : n \in {num_dofs, num_dofs + 1} \cup
                             (IF num_dofs > 0 THEN {num_dofs - 1} ELSE {})}

InitIdx == InitSkeleton(Half) /\ InitPid(Zero, Zero, Zero, DefaultSmooth)

NextIdx ==
    \/ \E desc \in IdxDescriptions : load_skel(desc)
    \/ \E torques \in TorqueInputs : add_torques(torques)

SpecIdx == InitIdx /\ [][NextIdx]_vars

-----------------------------------------------------------------------------
(* The Skeleton under control: set_pid_params and set_target_angles while  *)
(* the simulation moves the joints.                                        *)

Sixtieth == <<1, 60>>

CtlDescriptions ==
    { Description(TRUE, <<>>, <<>>, <<[name |-> "hip", ADOF |-> 1]>>),
      Description(TRUE, <<>>, <<>>,
                  <<[name |-> "hip", ADOF |-> 2], [name |-> "knee", ADOF |-> 1]>>) }

CtlGains == { <<R(2), Zero, Zero, DefaultSmooth>>, <<Half, One, One, Half>> }

\* Target vectors of n entries, all different.
TargetVector(n) == [x \in 1..n |-> R(x)]

TargetInputs ==
    {TargetVector(n) : n \in {num_dofs, num_dofs + 1} \cup
                             (IF num_dofs > 0 THEN {num_dofs - 1} ELSE {})}

JointAngleValues == {Zero, One}

InitCtl ==
    /\ \E tstep \in {Half, Sixtieth} : InitSkeleton(tstep)
    /\ InitPid(Zero, Zero, Zero, DefaultSmooth)

NextCtl ==
    \/ \E desc \in CtlDescriptions : load_skel(desc)
    \/ \E g \in CtlGains : set_pid_params(g[1], g[2], g[3], g[4])
    \/ \E angles \in TargetInputs : set_target_angles(angles)
    \/ \E k \in 1..Len(joints), a \in JointAngleValues :
          WorldMoveJoint(k, repeat(a, joints[k].ADOF))

SpecCtl == InitCtl /\ [][NextCtl]_vars

-----------------------------------------------------------------------------
(* The Skeleton and its bodies: loads that succeed and loads that fail,    *)
(* get_body_states and set_body_states while the simulation moves bodies.  *)

OneJoint == <<[name |-> "hip", ADOF |-> 1]>>

\* Well-formed without roots; well-formed with a root; two bodies of one
\* name; malformed after its first body; and the empty description.
BodyDescriptions ==
    { Description(TRUE, <<>>, <<"torso", "leg">>, OneJoint),
      Description(TRUE, <<"torso">>, <<"torso">>, OneJoint),
      Description(TRUE, <<>>, <<"torso", "torso">>, OneJoint),
      Description(FALSE, <<>>, <<"torso">>, <<>>),
      Description(TRUE, <<>>, <<>>, <<>>) }

\* States the simulation may leave a body in.
Tumbling ==
    [position |-> <<1, 2, 3>>, quaternion |-> <<0, 1, 0, 0>>,
     linear_velocity |-> <<4, 0, 0>>, angular_velocity |-> <<0, 5, 0>>]
Spinning ==
    [position |-> <<1, 2, 3>>, quaternion |-> <<1, 0, 0, 0>>,
     linear_velocity |-> <<0, 0, 0>>, angular_velocity |-> <<0, 0, 6>>]
BodyStates == {Tumbling, Spinning}

InitBody == InitSkeleton(Half) /\ InitPid(Zero, Zero, Zero, DefaultSmooth)

NextBody ==
    \/ \E desc \in BodyDescriptions : load_skel(desc)
    \/ GetBodyStates
    \/ set_body_states(saved)
    \/ \E b \in SeqSet(bodies), st \in BodyStates : WorldMoveBody(b, st)

SpecBody == InitBody /\ [][NextBody]_vars

-----------------------------------------------------------------------------
(* The Skeleton with every operation.                                      *)

\* Well-formed without roots; well-formed with a root; malformed from the
\* start; and the empty description.
Descriptions ==
    { Description(TRUE, <<>>, <<"torso">>, OneJoint),
      Description(TRUE, <<"torso">>, <<"torso">>, OneJoint),
      Description(FALSE, <<>>, <<>>, <<>>),
      Description(TRUE, <<>>, <<>>, <<>>) }

Init == InitSkeleton(Half) /\ InitPid(Zero, Zero, Zero, DefaultSmooth)

Next ==
    \/ \E desc \in Descriptions : load_skel(desc)
    \/ load_asf
    \/ set_pid_params(One, One, Zero, DefaultSmooth)
    \/ \E angles \in {TargetVector(num_dofs)} : set_target_angles(angles)
    \/ \E torques \in {TorqueVector(num_dofs)} : add_torques(torques)
    \/ set_joint_velocities(Zero)
    \/ enable_motors(100)
    \/ disable_motors
    \/ GetBodyStates
    \/ set_body_states(saved)
    \/ \E b \in SeqSet(bodies) : WorldMoveBody(b, Tumbling)
    \/ \E k \in 1..Len(joints) : WorldMoveAnchor(k, <<1, 0, 0>>)

Spec == Init /\ [][Next]_vars

-----------------------------------------------------------------------------
(* C8: the controller's outputs against the closed form.                   *)

\* I_k: the sum of e_i * dt_i for i <= k.
RECURSIVE ClosedIntegral(_, _)
ClosedIntegral(calls, k) ==
    IF k = 0 THEN Zero
    ELSE RAdd(ClosedIntegral(calls, k - 1), RMul(calls[k][1], calls[k][2]))

\* D_k = smooth * D_(k-1) + (1 - smooth) * (e_k - e_(k-1)) / dt_k, D_0 = e_0 = 0.
RECURSIVE ClosedDerivative(_, _, _)
ClosedDerivative(calls, k, smooth) ==
    IF k = 0 THEN Zero
    ELSE LET eprev == IF k = 1 THEN Zero ELSE calls[k - 1][1]
         IN  RAdd(RMul(smooth, ClosedDerivative(calls, k - 1, smooth)),
                  RDiv(RMul(RSub(One, smooth), RSub(calls[k][1], eprev)),
                       calls[k][2]))

ClosedOutput(c, calls, k) ==
    RAdd(RAdd(RMul(c.kp, calls[k][1]), RMul(c.ki, ClosedIntegral(calls, k))),
         RMul(c.kd, ClosedDerivative(calls, k, c.smooth)))

\* C8: for a controller made by pid(kp, ki, kd, smooth) and any sequence of
\* calls whose dt are all nonzero, the k-th value returned is
\* kp*e_k + ki*I_k + kd*D_k; with ki = 1, kp = kd = 0 and dt = 1 the errors
\* 2, 3 give 2 then 5; with ki = kd = 0 the value is kp*e_k whatever came
\* before.
C8_ClosedForm ==
    (\A k \in 1..Len(pidCalls) : pidCalls[k][2] # Zero) =>
        /\ Len(pidOuts) = Len(pidCalls)
        /\ \A k \in 1..Len(pidCalls) :
              pidOuts[k] = ClosedOutput(pidCtl, pidCalls, k)
        /\ (/\ pidCtl.ki = One /\ pidCtl.kp = Zero /\ pidCtl.kd = Zero
            /\ pidCalls = << <<R(2), One>>, <<R(3), One>> >>)
           => pidOuts = <<R(2), R(5)>>
        /\ (pidCtl.ki = Zero /\ pidCtl.kd = Zero)
           => \A k \in 1..Len(pidCalls) :
                 pidOuts[k] = RMul(pidCtl.kp, pidCalls[k][1])

\* Three calls with changing errors and a half time step on a controller
\* with all three gains.
C8_Witness ==
    /\ pidCtl.kd # Zero /\ pidCtl.ki # Zero /\ pidCtl.smooth = DefaultSmooth
    /\ Len(pidCalls) = 3
    /\ pidCalls[1][1] # pidCalls[2][1] /\ pidCalls[2][1] # pidCalls[3][1]
    /\ \A k \in 1..3 : pidCalls[k][2] = Half
    /\ pidOuts[3] = ClosedOutput(pidCtl, pidCalls, 3)

-----------------------------------------------------------------------------
(* C1: the index ranges of the joints partition the flat vector.           *)

\* C1: for a loaded skeleton whose joint names are unique, the ranges
\* indices_for_joint(name) over the joint names partition 0..num_dofs-1:
\* each has the joint's ADOF entries, the lengths sum to num_dofs, the ranges
\* are pairwise disjoint, and the range of joint k starts where the range of
\* joint k-1 ends (the first at 0), in load order.
C1_RangesPartition ==
    UniqueNames(joints) =>
        LET rng(k) == indices_for_joint(joints[k].name)
            n == Len(joints)
        IN  /\ \A k \in 1..n : Len(rng(k)) = joints[k].ADOF
            /\ SumSeq([k \in 1..n |-> Len(rng(k))]) = num_dofs
            /\ \A k, m \in 1..n :
                  k # m => SeqSet(rng(k)) \cap SeqSet(rng(m)) = {}
            /\ \A k \in 1..n :
                  /\ rng(k) # <<>>
                  /\ rng(k)[1] = (IF k = 1 THEN 0
                                  ELSE rng(k - 1)[Len(rng(k - 1))] + 1)
                  /\ \A x \in 1..(Len(rng(k)) - 1) : rng(k)[x + 1] = rng(k)[x] + 1
            /\ UNION {SeqSet(rng(k)) : k \in 1..n} = 0..(num_dofs - 1)

\* A loaded skeleton of two joints with distinct names, three DOFs then two.
C1_Witness ==
    /\ Len(joints) = 2
    /\ UniqueNames(joints)
    /\ joints[1].ADOF = 3 /\ joints[2].ADOF = 2
    /\ indices_for_joint(joints[1].name) = <<0, 1, 2>>
    /\ indices_for_joint(joints[2].name) = <<3, 4>>
    /\ num_dofs = 5

-----------------------------------------------------------------------------
(* C9: add_torques.                                                        *)

\* The 3-component torque joint k is to receive from the vector torques.
PaddedTorque(js, k, torques) ==
    [c \in 1..3 |->
       IF c <= js[k].ADOF THEN torques[dof_offset(js, k) + c] ELSE 0]

\* C9: for a loaded skeleton and a vector with len(torques) >= num_dofs,
\* add_torques adds to every joint exactly one torque of 3 components: the
\* joint's ADOF entries of torques, starting at the sum of the ADOFs of the
\* joints before it, then zeros.  A 1-DOF joint followed by a 3-DOF joint
\* receive [a,0,0] and [b,c,d] from [a,b,c,d].
C9_TorquesPadded ==
    (/\ last.op = "add_torques" /\ joints # <<>>
     /\ Len(last.arg) >= num_dofs) =>
        /\ Len(joints) = Len(pre.joints)
        /\ \A k \in 1..Len(joints) :
              /\ joints[k].added =
                    Append(pre.joints[k].added,
                           PaddedTorque(pre.joints, k, last.arg))
              /\ [joints[k] EXCEPT !.added = <<>>]
                    = [pre.joints[k] EXCEPT !.added = <<>>]
        /\ ([k \in 1..Len(joints) |-> joints[k].ADOF] = <<1, 3>>
            /\ pre.joints[1].added = <<>> /\ pre.joints[2].added = <<>>)
           => /\ joints[1].added = << <<last.arg[1], 0, 0>> >>
              /\ joints[2].added =
                    << <<last.arg[2], last.arg[3], last.arg[4]>> >>

\* A 1-DOF joint and a 3-DOF joint after their first add_torques.
C9_Witness ==
    /\ last.op = "add_torques"
    /\ Len(last.arg) >= num_dofs
    /\ [k \in 1..Len(joints) |-> joints[k].ADOF] = <<1, 3>>
    /\ joints[1].added = << <<11, 0, 0>> >>
    /\ joints[2].added = << <<12, 13, 14>> >>

-----------------------------------------------------------------------------
(* C2: set_target_angles followed by joint_velocities.                     *)

\* The joint whose flat range holds index i (from 0), by load order.
JointOf(js, i) ==
    CHOOSE k \in 1..Len(js) :
        dof_offset(js, k) <= i /\ i < dof_offset(js, k) + js[k].ADOF

\* What a controller in state c returns for error e and time step h:
\* kp*e + ki*(i + e*h) + kd*(smooth*d + (1 - smooth)*(e - p)/h).
StepOutput(c, e, h) ==
    RAdd(RAdd(RMul(c.kp, e), RMul(c.ki, RAdd(c.i, RMul(e, h)))),
         RMul(c.kd, RAdd(RMul(c.smooth, c.d),
                         RDiv(RMul(RSub(One, c.smooth), RSub(e, c.p)), h))))

\* C2: after set_target_angles(angles) with len(angles) >= num_dofs,
\* joint_velocities has num_dofs entries, and the entry at flat index i, the
\* d-th DOF of the joint whose range holds i, is what that DOF's own
\* controller returns when stepped once with angles[i] minus that DOF's
\* current angle and dt = world.dt; each controller is stepped exactly once.
C2_PidVelocities ==
    (last.op = "set_target_angles" /\ Len(last.arg) >= num_dofs) =>
        /\ Len(joint_velocities) = num_dofs
        /\ \A i \in 0..(num_dofs - 1) :
              LET k == JointOf(pre.joints, i)
                  d == i - dof_offset(pre.joints, k) + 1
                  id == pre.joints[k].controllers[d]
                  c == pre.ctrls[id]
                  e == RSub(last.arg[i + 1], pre.joints[k].angles[d])
              IN  /\ joint_velocities[i + 1] = StepOutput(c, e, dt)
                  /\ ctrls[id].p = e
                  /\ ctrls[id].i = RAdd(c.i, RMul(e, dt))
                  /\ ctrls[id].d =
                        RAdd(RMul(c.smooth, c.d),
                             RDiv(RMul(RSub(One, c.smooth), RSub(e, c.p)), dt))
                  /\ errs[id] = Append(pre.errs[id], e)
        /\ DOMAIN ctrls = DOMAIN pre.ctrls


\* Two joints, three DOFs, stepped a second time from angles the simulation
\* has moved, by controllers with all three gains.
C2_Witness ==
    /\ last.op = "set_target_angles"
    /\ Len(joints) = 2 /\ num_dofs = 3
    /\ Len(last.arg) >= num_dofs
    /\ \A id \in DOMAIN ctrls : ctrls[id].kd # Zero /\ Len(errs[id]) = 2
    /\ \E k \in 1..2 : pre.joints[k].angles[1] # Zero
    /\ Len(joint_velocities) = 3
    /\ joint_velocities[1] # joint_velocities[3]

-----------------------------------------------------------------------------
(* C3: the gains load_skel installs.                                       *)

\* Whether every controller still has the gains load_skel gave it.
LoadGains ==
    \A id \in DOMAIN ctrls :
        ctrls[id].kp = load_kp /\ ctrls[id].ki = Zero /\ ctrls[id].kd = Zero

\* C3: with the gains load installs (kp = (1 - 1e4) / world.dt, ki = kd =
\* 0), the velocity v that set_target_angles computes for a DOF with error
\* e = target - current is a near-full correction in one time step:
\* v * world.dt has the sign of e and a magnitude just under |e| (here: at
\* most |e| and more than nine tenths of it).
C3_NearFullCorrection ==
    (last.op = "set_target_angles" /\ LoadGains) =>
        \A k \in 1..Len(joints) : \A d \in 1..Len(joints[k].velocities) :
            LET e == errs[joints[k].controllers[d]]
                             [Len(errs[joints[k].controllers[d]])]
                move == RMul(joints[k].velocities[d], dt)
            IN  e # Zero =>
                  /\ RSign(move) = RSign(e)
                  /\ RLeq(RAbs(move), RAbs(e))
                  /\ RLess(RMul(<<9, 10>>, RAbs(e)), RAbs(move))

-----------------------------------------------------------------------------
(* C10: the controllers of a loaded skeleton.                              *)

AllControllers == flat_array([k \in 1..Len(joints) |-> joints[k].controllers])

\* The calls (error, world.dt) a controller has seen since it was created.
SeenCalls(id) == [x \in 1..Len(errs[id]) |-> <<errs[id][x], dt>>]

\* C10: in every state of a loaded skeleton each joint has exactly ADOF
\* target angles and ADOF controllers and no controller serves two DOFs;
\* set_pid_params leaves every DOF with a new controller (proportional,
\* integral and derivative state zero, the gains just given) and every
\* target unset; and what set_target_angles computes depends only on the
\* errors its controller has seen since set_pid_params (or load) made it.
C10_FreshControllers ==
    /\ \A k \in 1..Len(joints) :
          /\ Len(joints[k].target_angles) = joints[k].ADOF
          /\ Len(joints[k].controllers) = joints[k].ADOF
    /\ Cardinality(SeqSet(AllControllers)) = num_dofs
    /\ SeqSet(AllControllers) = DOMAIN ctrls
    /\ last.op = "set_pid_params" =>
          /\ \A id \in DOMAIN ctrls :
                /\ ctrls[id] = [kp |-> last.arg[1], ki |-> last.arg[2],
                                kd |-> last.arg[3], smooth |-> last.arg[4],
                                p |-> Zero, i |-> Zero, d |-> Zero]
                /\ id > nctrl - num_dofs
          /\ \A k \in 1..Len(joints) :
                joints[k].target_angles = repeat("None", joints[k].ADOF)
    /\ last.op = "set_target_angles" =>
          \A k \in 1..Len(joints) : \A d \in 1..Len(joints[k].velocities) :
              LET id == joints[k].controllers[d]
              IN  joints[k].velocities[d] =
                     ClosedOutput(ctrls[id], SeenCalls(id), Len(errs[id]))

\* A skeleton stepped before and after set_pid_params gave its three DOFs
\* new controllers with an integral and a derivative gain.
C10_Witness ==
    /\ last.op = "set_target_angles"
    /\ num_dofs = 3
    /\ ncalls = 2
    /\ \A id \in DOMAIN ctrls :
          /\ ctrls[id].ki # Zero /\ ctrls[id].kd # Zero
          /\ Len(errs[id]) = 1
          /\ id > num_dofs
    /\ Len(joint_velocities) = 3

-----------------------------------------------------------------------------
(* C4, C5, C6: loading.                                                    *)

Unloaded == bodies = <<>> /\ joints = <<>>
Loaded == ~Unloaded

\* C4: when the parser succeeds on a description naming one or more roots,
\* all of them bodies of the world, load completes without error, roots are
\* the bodies the world finds under the root identifiers, in order, bodies
\* and joints are the parser's, and every joint has ADOF new controllers.
C4_LoadResolvesRoots ==
    (/\ last.op = "load_skel" /\ last.arg.ok /\ last.arg.roots # <<>>
     /\ \A r \in SeqSet(last.arg.roots) : get_body(r) # 0) =>
        /\ last.result = "ok"
        /\ roots = [k \in 1..Len(last.arg.roots) |-> get_body(last.arg.roots[k])]
        /\ bodies = [k \in 1..Len(last.arg.bodies) |->
                       Len(bodyObjs) - Len(last.arg.bodies) + k]
        /\ [k \in 1..Len(joints) |-> [name |-> joints[k].name, ADOF |-> joints[k].ADOF]]
              = last.arg.joints
        /\ \A k \in 1..Len(joints) :
              /\ Len(joints[k].controllers) = joints[k].ADOF
              /\ \A d \in 1..joints[k].ADOF :
                    ctrls[joints[k].controllers[d]]
                       = pid(load_kp, Zero, Zero, DefaultSmooth)

C6_UnloadedQueries ==
    Unloaded =>
        /\ num_dofs = 0
        /\ joint_angles = <<>> /\ joint_velocities = <<>> /\ joint_torques = <<>>
        /\ body_positions = <<>> /\ body_rotations = <<>>
        /\ body_linear_velocities = <<>> /\ body_angular_velocities = <<>>
        /\ get_body_states = <<>>
        /\ \A n \in JointNames : indices_for_joint(n) = <<>>
        /\ \A n \in BodyNames :
              indices_for_body(n, 3) = <<>> /\ indices_for_body(n, 4) = <<>>
        /\ IsZeroRms(joint_rms)

-----------------------------------------------------------------------------
(* C7: get_body_states, then set_body_states.                              *)

UniqueBodyNames ==
    \A k, m \in 1..Len(bodies) :
        bodyObjs[bodies[k]].name = bodyObjs[bodies[m]].name => k = m

\* Whether the four body views are what they were when saved was taken.
ViewsRestored ==
    /\ body_positions = snap.positions
    /\ body_rotations = snap.rotations
    /\ body_linear_velocities = snap.linear
    /\ body_angular_velocities = snap.angular

WorldFindsBodies ==
    \A k \in 1..Len(bodies) : get_body(bodyObjs[bodies[k]].name) = bodies[k]

=============================================================================
